---- MODULE Spec2Model ----
(***************************************************************************)
(* Lake Tahoe hazard warning system: the data-retrieval layer.             *)
(*                                                                         *)
(*   src/dataretrieval/aws.py          get_model_historical_data,          *)
(*                                     remove_outliers, median_filtering   *)
(*   src/lt-hws/data-retrieval/nws.py  parse_interval,                     *)
(*                                     round_to_nearest_hour,              *)
(*                                     get_model_nws_data                  *)
(*                                                                         *)
(* Numbers.  A float is modelled by the exact rational it stands for, a    *)
(* pair <<n, d>> in lowest terms with d > 0; NaN is <<0, 0>>.  TLC's       *)
(* integers are 32 bits wide, so the operators below keep intermediate     *)
(* products small (least common denominators, window statistics taken in  *)
(* units of the window's own grid); the values they return are exact.      *)
(* A rolling standard deviation is carried by its square (the variance),   *)
(* which is rational; every comparison against mean -/+ 3*std is decided   *)
(* exactly from it.                                                        *)
(*                                                                         *)
(* pandas.  The in-place Series.where calls of remove_outliers act on the  *)
(* column of the frame (pandas 1.x, the library of the repository's time). *)
(***************************************************************************)
EXTENDS Integers, Sequences, FiniteSets, TLC

(***************************************************************************)
(* Exact rational arithmetic                                               *)
(***************************************************************************)
Abs(x) == IF x < 0 THEN -x ELSE x

RECURSIVE Gcd(_, _)
Gcd(a, b) == IF b = 0 THEN Abs(a) ELSE Gcd(Abs(b), Abs(a) % Abs(b))

Lcm(a, b) == (a \div Gcd(a, b)) * b

NaN == <<0, 0>>

IsNaN(v) == v[2] = 0

\* n/d in lowest terms, d > 0
Rat(n, d) ==
    LET s == IF d < 0 THEN -1 ELSE 1
        g == Gcd(n, d)
    IN  <<(s * n) \div g, (s * d) \div g>>

RInt(n) == <<n, 1>>

\* a + b, over the least common denominator
RAdd(a, b) ==
    IF IsNaN(a) \/ IsNaN(b) THEN NaN
    ELSE LET l == Lcm(a[2], b[2])
         IN  Rat(a[1] * (l \div a[2]) + b[1] * (l \div b[2]), l)

RNeg(a) == IF IsNaN(a) THEN NaN ELSE <<-a[1], a[2]>>

RSub(a, b) == RAdd(a, RNeg(b))

\* a / k for an integer k > 0
RDivInt(a, k) ==
    IF IsNaN(a) THEN NaN
    ELSE LET g == Gcd(a[1], k)
         IN  IF a[1] = 0 THEN RInt(0) ELSE <<a[1] \div g, a[2] * (k \div g)>>

\* a * k for an integer k
RMulInt(a, k) ==
    IF IsNaN(a) THEN NaN
    ELSE IF k = 0 THEN RInt(0)
    ELSE LET g == Gcd(k, a[2])
         IN  Rat(a[1] * (k \div g), a[2] \div g)

\* The sign of a - b (a, b not NaN).
RCmp(a, b) ==
    LET l == Lcm(a[2], b[2])
        x == a[1] * (l \div a[2])
        y == b[1] * (l \div b[2])
    IN  IF x < y THEN -1 ELSE IF x > y THEN 1 ELSE 0

\* IEEE comparisons: every comparison with NaN is false.
RLt(a, b) == ~IsNaN(a) /\ ~IsNaN(b) /\ RCmp(a, b) < 0
RLe(a, b) == ~IsNaN(a) /\ ~IsNaN(b) /\ RCmp(a, b) <= 0
REq(a, b) == ~IsNaN(a) /\ ~IsNaN(b) /\ RCmp(a, b) = 0

RMin(a, b) == IF RLt(b, a) THEN b ELSE a
RMax(a, b) == IF RLt(a, b) THEN b ELSE a

\* a / b for rationals, b # 0
RDiv(a, b) ==
    IF IsNaN(a) \/ IsNaN(b) THEN NaN
    ELSE LET g1 == Gcd(a[1], b[1])
             g2 == Gcd(a[2], b[2])
         IN  IF a[1] = 0 THEN RInt(0)
             ELSE Rat((a[1] \div g1) * (b[2] \div g2), (a[2] \div g2) * (b[1] \div g1))

(***************************************************************************)
(* Sequence helpers                                                        *)
(***************************************************************************)
RECURSIVE SumInt(_)
SumInt(s) == IF s = <<>> THEN 0 ELSE Head(s) + SumInt(Tail(s))

RECURSIVE GcdSeq(_)
GcdSeq(s) == IF s = <<>> THEN 0 ELSE Gcd(Head(s), GcdSeq(Tail(s)))

RECURSIVE LcmDen(_)
LcmDen(s) == IF s = <<>> THEN 1 ELSE Lcm(Head(s)[2], LcmDen(Tail(s)))

RECURSIVE MinInt(_)
MinInt(s) ==
    IF Len(s) = 1 THEN Head(s)
    ELSE LET m == MinInt(Tail(s)) IN IF Head(s) < m THEN Head(s) ELSE m

\* s with v inserted before the first element greater than v (s ascending)
RECURSIVE InsertSorted(_, _)
InsertSorted(v, s) ==
    IF s = <<>> THEN <<v>>
    ELSE IF RLe(v, Head(s)) THEN <<v>> \o s
    ELSE <<Head(s)>> \o InsertSorted(v, Tail(s))

RECURSIVE SortRat(_)
SortRat(s) == IF s = <<>> THEN <<>> ELSE InsertSorted(Head(s), SortRat(Tail(s)))

NotNaN(v) == ~IsNaN(v)

(***************************************************************************)
(* pandas rolling windows: Series.rolling(window, center=True,             *)
(* min_periods=1).  Index i of a column is 1-based here (pandas label      *)
(* i - 1).  The centred window of width w at i covers the positions        *)
(* i - (w - 1 - off) .. i + off  with  off = (w - 1) div 2, cut to the     *)
(* column: [i-2, i+2] for w = 5 and [i-50, i+49] for w = 100.  NaN         *)
(* observations are skipped.                                               *)
(***************************************************************************)
SmallWindow == 5
LargeWindow == 100

WinLo(i, w) ==
    LET lo == i - (w - 1 - ((w - 1) \div 2)) IN IF lo < 1 THEN 1 ELSE lo

WinHi(i, w, n) ==
    LET hi == i + ((w - 1) \div 2) IN IF hi > n THEN n ELSE hi

Window(col, i, w) ==
    SelectSeq(SubSeq(col, WinLo(i, w), WinHi(i, w, Len(col))), NotNaN)

\* rolling(...).median() of one window: the middle observation, or the
\* mean of the two middle ones.
Median(win) ==
    LET n == Len(win)
        s == SortRat(win)
    IN  IF n = 0 THEN NaN
        ELSE IF n % 2 = 1 THEN s[(n + 1) \div 2]
        ELSE RDivInt(RAdd(s[n \div 2], s[(n \div 2) + 1]), 2)

\* The statistics of one window, taken on the window's own grid: with L the
\* least common denominator, every observation is (m + g * c) / L for
\* integers c >= 0 (m the least numerator, g the gcd of the offsets).
\*   mean = (m + g * S / n) / L             S = sum of c
\*   std  = (g / L) * sqrt(V / (n * (n - 1)))   V = n * sum c^2 - S^2
\* (sample standard deviation, ddof = 1; NaN for a single observation).
WindowStat(win) ==
    LET n    == Len(win)
        l    == LcmDen(win)
        k    == [i \in 1..n |-> win[i][1] * (l \div win[i][2])]
        m    == MinInt(k)
        off  == [i \in 1..n |-> k[i] - m]
        g0   == GcdSeq(off)
        g    == IF g0 = 0 THEN 1 ELSE g0
        c    == [i \in 1..n |-> off[i] \div g]
        s    == SumInt(c)
        q    == SumInt([i \in 1..n |-> c[i] * c[i]])
    IN  IF n = 0
        THEN [mean |-> NaN, std |-> [nan |-> TRUE, unit |-> RInt(0), rad |-> RInt(0)]]
        ELSE [mean |-> Rat(m * n + g * s, l * n),
              std  |-> IF n = 1
                       THEN [nan |-> TRUE, unit |-> RInt(0), rad |-> RInt(0)]
                       ELSE [nan  |-> FALSE,
                             unit |-> Rat(g, l),
                             rad  |-> Rat(n * q - s * s, n * (n - 1))]]

\* The value 0 as a standard deviation (the assignment std[0] = 0).
StdZero == [nan |-> FALSE, unit |-> RInt(0), rad |-> RInt(0)]

\* A Series is an array of computed values: the function f over 1..n as
\* the sequence of its values.
Series(f, n) == SubSeq(f, 1, n)

\* The function f as the table of its values (each value computed once).
Computed(f) == f @@ <<>>

\* One WindowStat per position; windows over the same positions are
\* computed once.
RollingStat(col, w) ==
    LET n    == Len(col)
        keys == {<<WinLo(i, w), WinHi(i, w, n)>> : i \in 1..n}
        tab  == [p \in keys |-> WindowStat(SelectSeq(SubSeq(col, p[1], p[2]), NotNaN))]
        val  == Computed(tab)
    IN  Series([i \in 1..n |-> val[<<WinLo(i, w), WinHi(i, w, n)>>]], n)

\* x < mean + 3 * std    (the test  df[feature] < hi,  hi = mean + 3 * std)
LtMeanPlus3Std(x, mean, std) ==
    IF IsNaN(x) \/ IsNaN(mean) \/ std.nan THEN FALSE
    ELSE IF std.rad[1] = 0 \/ std.unit[1] = 0 THEN RLt(x, mean)
    ELSE LET r == RDiv(RSub(x, mean), std.unit)      \* (x - mean) / unit
         IN  r[1] < 0
             \/ r[1] * r[1] * std.rad[2] < 9 * std.rad[1] * r[2] * r[2]

\* mean - 3 * std < x    (the test  lo < df[feature],  lo = mean - 3 * std)
GtMeanMinus3Std(x, mean, std) ==
    IF IsNaN(x) \/ IsNaN(mean) \/ std.nan THEN FALSE
    ELSE IF std.rad[1] = 0 \/ std.unit[1] = 0 THEN RLt(mean, x)
    ELSE LET r == RDiv(RSub(mean, x), std.unit)      \* (mean - x) / unit
         IN  r[1] < 0
             \/ r[1] * r[1] * std.rad[2] < 9 * std.rad[1] * r[2] * r[2]

(***************************************************************************)
(* aws.py: the table.  A DataFrame is a sequence of rows                   *)
(* [time |-> t, v |-> [column name -> value]]; row i carries pandas label  *)
(* i - 1 (sort_values(ignore_index=True) leaves the default index).        *)
(***************************************************************************)
features ==
    <<"shortwave", "air temp", "atmospheric pressure", "relative humidity",
      "longwave", "wind speed", "wind direction">>

Features == {features[i] : i \in 1..Len(features)}

\* ATTR_BOUNDS: feature -> <<lo, hi>>
ATTR_BOUNDS ==
    [f \in Features |->
        CASE f = "relative humidity"    -> <<RInt(0), RInt(1)>>
          [] f = "shortwave"            -> <<Rat(-1, 1000), RInt(1300)>>
          [] f = "longwave"             -> <<RInt(50), RInt(450)>>
          [] f = "atmospheric pressure" -> <<RInt(75000), RInt(90000)>>
          [] f = "air temp"             -> <<RInt(-20), RInt(70)>>
          [] f = "wind speed"           -> <<RInt(0), RInt(40)>>
          [] f = "wind direction"       -> <<RInt(0), RInt(360)>>]

Columns(df) == IF Len(df) = 0 THEN Features ELSE DOMAIN df[1].v

Column(df, f) == [i \in 1..Len(df) |-> df[i].v[f]]

\* The frame with its columns replaced by cols (a function on column names).
WithColumns(df, cols) ==
    LET val == Computed(cols)
    IN  [i \in 1..Len(df) |->
            [time |-> df[i].time, v |-> [f \in DOMAIN val |-> val[f][i]]]]

(***************************************************************************)
(* aws.py: median_filtering and the stages of remove_outliers, per column  *)
(***************************************************************************)
\* df[feature].rolling(window=5, min_periods=1, center=True).median()
MedianFilterColumn(col) ==
    Series([i \in 1..Len(col) |-> Median(Window(col, i, SmallWindow))], Len(col))

median_filtering(df) ==
    WithColumns(df, [f \in Columns(df) |-> MedianFilterColumn(Column(df, f))])

\* Mutant of Clip: only the upper bound is applied.
ClipUpperOnly(x, lo, hi) == IF IsNaN(x) THEN NaN ELSE RMin(x, hi)

\* np.clip(x, lo, hi)
Clip(x, lo, hi) == IF IsNaN(x) THEN NaN ELSE RMin(RMax(x, lo), hi)

ClipColumn(col, lo, hi) ==
    Series([i \in 1..Len(col) |-> Clip(col[i], lo, hi)], Len(col))

ClipStage(df) ==
    WithColumns(df,
        [f \in Columns(df) |->
            IF f \in DOMAIN ATTR_BOUNDS
            THEN ClipColumn(Column(df, f), ATTR_BOUNDS[f][1], ATTR_BOUNDS[f][2])
            ELSE Column(df, f)])

\* mean and std of stage 3, both taken once from the column as it enters
\* the stage; std[0] = 0 overwrites the first entry.
SigmaStat(col) ==
    LET st == RollingStat(col, LargeWindow)
    IN  Series([i \in 1..Len(col) |->
                   [mean |-> st[i].mean, std |-> IF i = 1 THEN StdZero ELSE st[i].std]],
               Len(col))

\* df[feature].where(lo < df[feature], mean, inplace=True)
SigmaBelowPass(col, st) ==
    Series([i \in 1..Len(col) |->
               IF GtMeanMinus3Std(col[i], st[i].mean, st[i].std) THEN col[i] ELSE st[i].mean],
           Len(col))

\* df[feature].where(df[feature] < hi, mean, inplace=True)
SigmaAbovePass(col, st) ==
    Series([i \in 1..Len(col) |->
               IF LtMeanPlus3Std(col[i], st[i].mean, st[i].std) THEN col[i] ELSE st[i].mean],
           Len(col))

\* Mutant of SigmaColumn: mean and std are derived again between the passes.
SigmaColumnRederived(col) ==
    LET c1 == SigmaBelowPass(col, SigmaStat(col)) IN SigmaAbovePass(c1, SigmaStat(c1))

SigmaColumn(col) ==
    LET st == SigmaStat(col) IN SigmaAbovePass(SigmaBelowPass(col, st), st)

SigmaStage(df) ==
    WithColumns(df, [f \in Columns(df) |-> SigmaColumn(Column(df, f))])

\* mean of stage 4, taken once from the column as it leaves stage 3
StuckMean(col) ==
    LET st == RollingStat(col, LargeWindow)
    IN  Series([i \in 1..Len(col) |-> st[i].mean], Len(col))

\* df[feature].where(df[feature] != hi, mean, inplace=True)
\* df[feature].where(df[feature] != lo, mean, inplace=True)
StuckColumn(col, lo, hi) ==
    LET mean == StuckMean(col)
        c1   == Series([i \in 1..Len(col) |-> IF ~REq(col[i], hi) THEN col[i] ELSE mean[i]],
                       Len(col))
    IN  Series([i \in 1..Len(col) |-> IF ~REq(c1[i], lo) THEN c1[i] ELSE mean[i]], Len(col))

\* Mutant of StuckExempt: no feature is exempt.
StuckExemptNone(f) == FALSE

StuckExempt(f) == f = "shortwave"

StuckStage(df) ==
    WithColumns(df,
        [f \in Columns(df) |->
            IF f \in DOMAIN ATTR_BOUNDS /\ ~StuckExempt(f)
            THEN StuckColumn(Column(df, f), ATTR_BOUNDS[f][1], ATTR_BOUNDS[f][2])
            ELSE Column(df, f)])

(***************************************************************************)
(* State                                                                   *)
(***************************************************************************)
VARIABLES
    pc,     \* the statement the running function is at
    ret,    \* the caller remove_outliers returns to ("none": called directly)
    df,     \* the DataFrame
    prev,   \* df as it entered the stage that ran last
    df0,    \* df as it was passed to remove_outliers
    err,    \* the exception raised, "none" while there is none
    label_idx,   \* get_model_nws_data: the label the outer loop is at (1-based)
    model_data,  \* get_model_nws_data: the dict, rows in insertion order
    nproc,       \* samples processed so far
    last,        \* the sample processed last, with what was made of it
    before,      \* model_data as it was before that sample
    historical,  \* get_model_historical_data: the dict, rows in insertion order
    nread,       \* readings taken from the two sources so far
    seen,        \* the timestamps each source has reported so far
    round_arg,   \* the argument of the last call of round_to_nearest_hour
    rounded,     \* and what the call gave: [ok, date], ok FALSE for ValueError
    db,          \* DataRetrievalService: self.db, [none, rows, naive]
    csv_file,    \* the file ./database.csv, [none, rows] (none: no such file)
    nws_data,    \* retrieve: what the last call of get_model_nws_data gave
    old_db,      \* self.db as it was when the last retrieve was called
    ncalls       \* calls of retrieve so far

nwsvars == <<label_idx, model_data, nproc, last, before, round_arg, rounded>>

histvars == <<historical, nread, seen>>

svcvars == <<db, csv_file, nws_data, old_db, ncalls>>

vars == <<pc, ret, df, prev, df0, err, nwsvars, histvars, svcvars>>

\* An instant (nws.py): day is an ordinal day number, the rest as datetime.
Instant(d, h, mi, s, us) ==
    [day |-> d, hour |-> h, minute |-> mi, second |-> s, microsecond |-> us]

\* The variables of a function that is not running keep these values.
NoSample == [n |-> 0]

NoDate == Instant(0, 0, 0, 0, 0)

NotCalled == [ok |-> TRUE, date |-> NoDate]

NwsIdle ==
    /\ label_idx = 0
    /\ model_data = <<>>
    /\ nproc = 0
    /\ last = NoSample
    /\ before = <<>>
    /\ round_arg = NoDate
    /\ rounded = NotCalled

HistIdle ==
    /\ historical = <<>>
    /\ nread = 0
    /\ seen = [buoy |-> {}, uscg |-> {}]

\* self.db = None
NoDb == [none |-> TRUE, rows |-> <<>>, naive |-> FALSE]

\* os.path.isfile(CSV_FILE) is false
NoFile == [none |-> TRUE, rows |-> <<>>]

NotFetched == [ok |-> TRUE, df |-> <<>>]

SvcIdle ==
    /\ db = NoDb
    /\ csv_file = NoFile
    /\ nws_data = NotFetched
    /\ old_db = NoDb
    /\ ncalls = 0

(***************************************************************************)
(* nws.py: instants, intervals and the forecast table                      *)
(*                                                                         *)
(* An instant is [day, hour, minute, second, microsecond], day an ordinal  *)
(* day number (UTC).  A validTime string is given by its parts: the date   *)
(* text (the instant dateutil parses it to), the separator found in it     *)
(* ("/", "--" or "" when there is none) and the duration text, a sequence  *)
(* of characters.                                                          *)
(***************************************************************************)
labels == <<"windDirection", "windSpeed", "temperature", "skyCover", "relativeHumidity">>

Labels == {labels[i] : i \in 1..Len(labels)}

DigitChars == <<"0", "1", "2", "3", "4", "5", "6", "7", "8", "9">>

IsDigit(ch) == \E k \in 1..10 : DigitChars[k] = ch

DigitOf(ch) == (CHOOSE k \in 1..10 : DigitChars[k] = ch) - 1

\* The loop of parse_interval over the letters of the duration:
\* st = <<hours, integer>>.
RECURSIVE ParseDuration(_, _)
ParseDuration(duration, st) ==
    IF duration = <<>> THEN st[1]
    ELSE LET letter == Head(duration)
             hours   == st[1]
             integer == st[2]
         IN  ParseDuration(Tail(duration),
                IF IsDigit(letter) THEN <<hours, 10 * integer + DigitOf(letter)>>
                ELSE IF letter = "H" THEN <<hours + integer, 0>>
                ELSE IF letter = "M" THEN <<hours + (integer \div 60), 0>>
                ELSE IF letter = "S" THEN <<hours + (integer \div 360), 0>>
                ELSE st)

\* parse_interval(interval) -> (datetime, hours)
parse_interval(interval) ==
    IF interval.sep = ""
    THEN <<interval.date, 0>>
    ELSE <<interval.date, ParseDuration(interval.duration, <<0, 0>>)>>

\* date.replace(hour=..., minute=0, second=0): ValueError when hour is not
\* in 0..23; the microsecond field is not named and keeps its value.
Replace(date, hour) ==
    IF hour \in 0..23
    THEN [ok |-> TRUE, date |-> [date EXCEPT !.hour = hour, !.minute = 0, !.second = 0]]
    ELSE [ok |-> FALSE, date |-> date]

round_to_nearest_hour(date) ==
    IF date.minute >= 30
    THEN Replace(date, date.hour + 1)
    ELSE Replace(date, date.hour)

\* time + timedelta(hours=hour)
AddHours(t, hour) ==
    [t EXCEPT !.day = t.day + ((t.hour + hour) \div 24),
              !.hour = (t.hour + hour) % 24]

NanRow == [i \in 1..Len(labels) |-> NaN]

HasKey(d, t) == \E i \in 1..Len(d) : d[i].time = t

KeyIndex(d, t) == CHOOSE i \in 1..Len(d) : d[i].time = t

\* model_data[t][idx] = value on the defaultdict: a missing key is first
\* inserted, at the end, with a row of nan.
SetCell(d, t, idx, value) ==
    LET d1 == IF HasKey(d, t) THEN d ELSE Append(d, [time |-> t, values |-> NanRow])
        k  == KeyIndex(d1, t)
    IN  [d1 EXCEPT ![k].values[idx] = value]

\* Mutant of Expand: range(0, duration + 1).
RECURSIVE ExpandInclusive(_, _, _, _, _, _)
ExpandInclusive(d, time, idx, value, hour, duration) ==
    IF hour > duration THEN d
    ELSE ExpandInclusive(SetCell(d, AddHours(time, hour), idx, value),
                         time, idx, value, hour + 1, duration)

\* for hour in range(0, duration): model_data[time + timedelta(hours=hour)][label_idx] = value
RECURSIVE Expand(_, _, _, _, _, _)
Expand(d, time, idx, value, hour, duration) ==
    IF hour >= duration THEN d
    ELSE Expand(SetCell(d, AddHours(time, hour), idx, value),
                time, idx, value, hour + 1, duration)

\* pd.DataFrame([[time] + values for time, values in model_data.items()],
\*              columns=['time'] + labels)
NwsFrame(d) ==
    [i \in 1..Len(d) |->
        [time |-> d[i].time,
         v    |-> [l \in Labels |-> d[i].values[CHOOSE k \in 1..Len(labels) : labels[k] = l]]]]

(***************************************************************************)
(* The forecast samples offered to get_model_nws_data.  A duration text is *)
(* written from its parts, "PT" then <h>"H", <m>"M", <s>"S", a part of -1  *)
(* being left out.                                                         *)
(***************************************************************************)
RECURSIVE Digits(_)
Digits(n) ==
    IF n < 10 THEN <<DigitChars[n + 1]>>
    ELSE Digits(n \div 10) \o <<DigitChars[(n % 10) + 1]>>

DurationText(h, m, s) ==
    <<"P", "T">>
        \o (IF h < 0 THEN <<>> ELSE Digits(h) \o <<"H">>)
        \o (IF m < 0 THEN <<>> ELSE Digits(m) \o <<"M">>)
        \o (IF s < 0 THEN <<>> ELSE Digits(s) \o <<"S">>)

\* <<separator, h, m, s>>
DurationParts ==
    { <<"", -1, -1, -1>>,        \* no duration suffix
      <<"/", 1, -1, -1>>,        \* /PT1H
      <<"/", 2, -1, -1>>,        \* /PT2H
      <<"/", -1, 59, -1>>,       \* /PT59M
      <<"/", 1, 60, 360>>,       \* /PT1H60M360S
      <<"--", 1, -1, -1>> }      \* --PT1H

SampleStarts ==
    { Instant(1, 2, 0, 0, 0), Instant(1, 3, 29, 59, 0),
      Instant(1, 2, 30, 0, 0), Instant(1, 23, 30, 0, 0) }

SampleValues == {RInt(5), RInt(7)}

\* A sample: validTime (as its parts) and value; h, m, s are kept beside
\* the text they were written to.
Samples ==
    { [validTime |-> [date |-> t, sep |-> p[1],
                      duration |-> IF p[1] = "" THEN <<>> ELSE DurationText(p[2], p[3], p[4])],
       h |-> p[2], m |-> p[3], s |-> p[4],
       value |-> x] :
        t \in SampleStarts, p \in DurationParts, x \in SampleValues }

MaxSamples == 2

InitNws ==
    /\ pc = "nws_loop"
    /\ label_idx = 1
    /\ model_data = <<>>
    /\ nproc = 0
    /\ last = NoSample
    /\ before = <<>>
    /\ round_arg = NoDate
    /\ rounded = NotCalled
    /\ df = <<>>
    /\ prev = <<>>
    /\ df0 = <<>>
    /\ ret = "none"
    /\ err = "none"
    /\ HistIdle
    /\ SvcIdle

\* One iteration of the inner loop of get_model_nws_data  (nws.py:112-121)
NwsSample ==
    /\ pc = "nws_loop"
    /\ nproc < MaxSamples
    /\ \E sample \in Samples :
          LET pi       == parse_interval(sample.validTime)
              time     == pi[1]
              duration == pi[2]
              value    == sample.value
              r        == round_to_nearest_hour(time)
          IN  /\ nproc' = nproc + 1
              /\ before' = model_data
              /\ last' = [n |-> nproc + 1, label_idx |-> label_idx, sample |-> sample,
                          duration |-> duration, rounded |-> r]
              /\ round_arg' = time
              /\ rounded' = r
              /\ IF r.ok
                 THEN /\ model_data' = Expand(model_data, r.date, label_idx, value, 0, duration)
                      /\ UNCHANGED <<pc, err>>
                 ELSE /\ pc' = "error"
                      /\ err' = "ValueError"
                      /\ UNCHANGED model_data
    /\ UNCHANGED <<label_idx, df, prev, df0, ret, histvars>>
    /\ UNCHANGED svcvars

\* The outer loop moves to the next label                (nws.py:111)
NwsNextLabel ==
    /\ pc = "nws_loop"
    /\ label_idx < Len(labels)
    /\ label_idx' = label_idx + 1
    /\ UNCHANGED <<pc, ret, df, prev, df0, err, model_data, nproc, last, before,
                   round_arg, rounded, histvars>>
    /\ UNCHANGED svcvars

\* return pd.DataFrame(...)                               (nws.py:123-126)
NwsReturn ==
    /\ pc = "nws_loop"
    /\ label_idx = Len(labels)
    /\ df' = NwsFrame(model_data)
    /\ pc' = "nws_returned"
    /\ UNCHANGED <<ret, prev, df0, err, nwsvars, histvars>>
    /\ UNCHANGED svcvars

NextNws == NwsSample \/ NwsNextLabel \/ NwsReturn

SpecNws == InitNws /\ [][NextNws]_vars

(***************************************************************************)
(* round_to_nearest_hour as a function of its argument (SpecRound)         *)
(***************************************************************************)
RoundSeconds == {0, 30, 59}

RoundMicroseconds == {0, 1, 999999}

RoundDates ==
    { Instant(1, h, mi, sec, us) :
        h \in 0..23, mi \in 0..59, sec \in RoundSeconds, us \in RoundMicroseconds }

InitRound ==
    /\ pc = "round"
    /\ round_arg \in RoundDates
    /\ rounded = NotCalled
    /\ label_idx = 0
    /\ model_data = <<>>
    /\ nproc = 0
    /\ last = NoSample
    /\ before = <<>>
    /\ df = <<>>
    /\ prev = <<>>
    /\ df0 = <<>>
    /\ ret = "none"
    /\ err = "none"
    /\ HistIdle
    /\ SvcIdle

\* round_to_nearest_hour(date)                            (nws.py:58-69)
Round ==
    /\ pc = "round"
    /\ rounded' = round_to_nearest_hour(round_arg)
    /\ pc' = IF rounded'.ok THEN "rounded" ELSE "error"
    /\ err' = IF rounded'.ok THEN err ELSE "ValueError"
    /\ UNCHANGED <<ret, df, prev, df0, label_idx, model_data, nproc, last, before,
                   round_arg, histvars>>
    /\ UNCHANGED svcvars

NextRound == Round

SpecRound == InitRound /\ [][NextRound]_vars

(***************************************************************************)
(* Claims about the forecast table (SpecNws, SpecRound)                    *)
(***************************************************************************)
InstantLt(a, b) ==
    LET x == <<a.day, a.hour, a.minute, a.second, a.microsecond>>
        y == <<b.day, b.hour, b.minute, b.second, b.microsecond>>
    IN  \E k \in 1..5 : x[k] < y[k] /\ \A j \in 1..(k - 1) : x[j] = y[j]

\* Rounding to the hour as the specification words it: the next hour
\* boundary when minute >= 30 (00:00 of the following day after hour 23),
\* else the start of the hour; minute, second and sub-second all zero.
HourBoundary(t) ==
    IF t.minute >= 30
    THEN Instant(t.day + ((t.hour + 1) \div 24), (t.hour + 1) % 24, 0, 0, 0)
    ELSE Instant(t.day, t.hour, 0, 0, 0)

\* D = h + (m div 60) + (s div 360), a part left out counting 0
StatedDuration(h, m, s) ==
    (IF h < 0 THEN 0 ELSE h)
        + ((IF m < 0 THEN 0 ELSE m) \div 60)
        + ((IF s < 0 THEN 0 ELSE s) \div 360)

Keys(d) == {d[i].time : i \in 1..Len(d)}

Cell(d, t, idx) == IF HasKey(d, t) THEN d[KeyIndex(d, t)].values[idx] ELSE NaN

\* d is b with value x written into column idx at exactly the instants
\* times, and nothing else written or created.
WrittenExactly(d, b, times, idx, x) ==
    /\ Keys(d) = Keys(b) \cup times
    /\ \A t \in Keys(d) : \A k \in 1..Len(labels) :
          Cell(d, t, k) = IF t \in times /\ k = idx THEN x ELSE Cell(b, t, k)

\* C4: a sample with validTime '<start>/PT<h>H<m>M<s>S' and value x puts x
\* into its label's column at exactly the D hourly instants T, T+1h, ...,
\* T+(D-1)h, T the start rounded to the hour and
\* D = h + (m div 60) + (s div 360), and at no other instant.
C4_IntervalExpansion ==
    (last.n > 0 /\ last.sample.validTime.sep = "/") =>
        LET T == HourBoundary(last.sample.validTime.date)
            D == StatedDuration(last.sample.h, last.sample.m, last.sample.s)
        IN  /\ pc # "error"
            /\ WrittenExactly(model_data, before,
                              {AddHours(T, k) : k \in 0..(D - 1)},
                              last.label_idx, last.sample.value)

\* C4, for the samples whose start round_to_nearest_hour accepts and gives
\* back on an hour boundary: the expansion is the stated one.
C4_ExpansionWhenRounded ==
    (/\ last.n > 0 /\ last.sample.validTime.sep = "/"
     /\ last.rounded.ok
     /\ last.rounded.date = HourBoundary(last.sample.validTime.date)) =>
        LET T == HourBoundary(last.sample.validTime.date)
            D == StatedDuration(last.sample.h, last.sample.m, last.sample.s)
        IN  WrittenExactly(model_data, before,
                           {AddHours(T, k) : k \in 0..(D - 1)},
                           last.label_idx, last.sample.value)

\* A sample of 0 hours: no duration suffix, or parts that add up to less
\* than one hour.
ZeroHours(sample) ==
    \/ sample.validTime.sep = ""
    \/ StatedDuration(sample.h, sample.m, sample.s) = 0

\* C5 as stated: a sample of 0 hours emits exactly one reading, its value
\* written into its label's column at the rounded start time T.
C5_ZeroDurationOneReading ==
    (last.n > 0 /\ ZeroHours(last.sample) /\ last.rounded.ok) =>
        WrittenExactly(model_data, before, {last.rounded.date},
                       last.label_idx, last.sample.value)

\* C5 amended: a sample of 0 hours emits no reading: no cell is written
\* and no row is created for it.
C5_ZeroDurationNoReading ==
    (last.n > 0 /\ ZeroHours(last.sample)) => model_data = before

\* C5 witness: a sample of 0 hours whose start was rounded has been
\* processed, one without a duration suffix over a dict that already holds
\* rows.
C5_Witness ==
    /\ last.n > 0
    /\ ZeroHours(last.sample)
    /\ last.sample.validTime.sep = ""
    /\ last.rounded.ok
    /\ Len(before) > 0
    /\ pc = "nws_loop"

\* C6: round_to_nearest_hour never fails and returns, for every instant,
\* the hour boundary: the next one when minute >= 30 (00:00 of the next day
\* after hour 23), else the start of the hour, with minute, second and
\* sub-second zero.
C6_RoundsToHourBoundary ==
    pc \in {"rounded", "error"} =>
        /\ rounded.ok
        /\ rounded.date = HourBoundary(round_arg)

\* C6, on the instants with hour < 23 or minute < 30 and no sub-second
\* part: the call returns the stated hour boundary.
C6_RoundsWhenInRange ==
    (/\ pc \in {"rounded", "error"}
     /\ (round_arg.hour < 23 \/ round_arg.minute < 30)
     /\ round_arg.microsecond = 0) =>
        /\ rounded.ok
        /\ rounded.date = HourBoundary(round_arg)

\* Rows in strictly ascending time order.
NwsAscending(t) == \A i \in 1..(Len(t) - 1) : InstantLt(t[i].time, t[i + 1].time)

HistAscending(t) == \A i \in 1..(Len(t) - 1) : t[i].time < t[i + 1].time

\* C2: the table each table-building function returns has its rows in
\* strictly ascending timestamp order (so no timestamp twice), whatever the
\* order in which sources and labels deliver their readings.
C2_RowsAscending ==
    /\ pc = "nws_returned" => NwsAscending(df)
    /\ pc = "hist_returned" => HistAscending(df)

\* C2, the part that holds of get_model_nws_data: no timestamp appears in
\* more than one row.
C2_NwsTimesDistinct ==
    pc = "nws_returned" =>
        \A i, j \in 1..Len(df) : df[i].time = df[j].time => i = j

\* C2, the part about get_model_historical_data.
C2_HistRowsAscending == pc = "hist_returned" => HistAscending(df)

(***************************************************************************)
(* aws.py: get_model_historical_data.  A TmStamp is an integer instant     *)
(* (parse_date reads whole seconds, UTC).                                  *)
(***************************************************************************)
NanFeatures == [f \in Features |-> NaN]

\* historical[time][features.index(f)] = x for every f of upd, on the
\* defaultdict: a missing key is first inserted, at the end, all nan.
SetFeatures(h, time, upd) ==
    LET h1 == IF HasKey(h, time) THEN h ELSE Append(h, [time |-> time, v |-> NanFeatures])
        k  == KeyIndex(h1, time)
    IN  [h1 EXCEPT ![k].v = [f \in Features |-> IF f \in DOMAIN upd THEN upd[f] ELSE @[f]]]

\* A NASA buoy sample: the averages of the two instruments  (aws.py:80-97)
BuoyFeatures(sample) ==
    [f \in {"air temp", "wind speed", "wind direction"} |->
        CASE f = "air temp"       -> RDivInt(RAdd(sample.AirTemp_1, sample.AirTemp_2), 2)
          [] f = "wind speed"     -> RDivInt(RAdd(sample.WindSpeed_1, sample.WindSpeed_2), 2)
          [] f = "wind direction" -> RDivInt(RAdd(sample.WindDir_1, sample.WindDir_2), 2)]

\* A USCG sample: the unit conversions                      (aws.py:100-119)
UscgFeatures(sample) ==
    [f \in {"shortwave", "atmospheric pressure", "relative humidity", "longwave"} |->
        CASE f = "shortwave"            -> RSub(sample.ShortWaveIn_wm2, sample.ShortWaveOut_wm2)
          [] f = "atmospheric pressure" -> RMulInt(sample.BP_mbar, 100)
          [] f = "relative humidity"    -> RDivInt(sample.RH_percent, 100)
          [] f = "longwave"             -> sample.LongWaveInCorr_wm2]

\* pd.DataFrame([[time] + features for time, features in historical.items()], ...)
HistFrame(h) == [i \in 1..Len(h) |-> [time |-> h[i].time, v |-> h[i].v]]

\* The value of the "wind u" / "wind v" cell, kept as the term it is:
\*   wind u = sin(radians(direction)) * -1 * speed
\*   wind v = cos(radians(direction)) * -1 * speed
WindU(direction, speed) == [fn |-> "sin", direction |-> direction, speed |-> speed]

WindV(direction, speed) == [fn |-> "cos", direction |-> direction, speed |-> speed]

WindColumns == {"wind u", "wind v"}

\* isnull() of one cell: a wind term is NaN exactly when an operand is
IsNullCell(f, x) ==
    IF f \in WindColumns THEN IsNaN(x.direction) \/ IsNaN(x.speed) ELSE IsNaN(x)

\* Mutant of RowHasNaN: all(axis=1), a row counts only when every cell is NaN.
RowAllNaN(row) == \A f \in DOMAIN row.v : IsNullCell(f, row.v[f])

\* df.isnull().any(axis=1), for one row
RowHasNaN(row) == \E f \in DOMAIN row.v : IsNullCell(f, row.v[f])

\* rows_with_nan = [idx for idx, is_nan in enumerate(rows_with_nan) if is_nan]
RowsWithNaN(t) == {idx \in 0..(Len(t) - 1) : RowHasNaN(t[idx + 1])}

\* df.drop(axis=0, index=rows, inplace=True): the rows whose label is in
\* rows go; row i carries label i - 1.
DropRows(t, rows) ==
    LET keep == [i \in 1..Len(t) |-> (i - 1) \notin rows]
        F[i \in 0..Len(t)] ==
            IF i = 0 THEN <<>>
            ELSE IF keep[i] THEN Append(F[i - 1], t[i]) ELSE F[i - 1]
    IN  F[Len(t)]

\* df.sort_values(by=['time'], inplace=True, ignore_index=True)
RECURSIVE InsertByTime(_, _)
InsertByTime(row, t) ==
    IF t = <<>> THEN <<row>>
    ELSE IF row.time < Head(t).time THEN <<row>> \o t
    ELSE <<Head(t)>> \o InsertByTime(row, Tail(t))

RECURSIVE SortByTime(_)
SortByTime(t) ==
    IF t = <<>> THEN <<>> ELSE InsertByTime(t[Len(t)], SortByTime(SubSeq(t, 1, Len(t) - 1)))

\* wind u, wind v added, wind direction and wind speed dropped  (aws.py:137-140)
Decompose(t) ==
    [i \in 1..Len(t) |->
        [time |-> t[i].time,
         v |-> [f \in (Features \ {"wind direction", "wind speed"}) \cup WindColumns |->
                  CASE f = "wind u" -> WindU(t[i].v["wind direction"], t[i].v["wind speed"])
                    [] f = "wind v" -> WindV(t[i].v["wind direction"], t[i].v["wind speed"])
                    [] OTHER -> t[i].v[f]]]]

(***************************************************************************)
(* The readings the two endpoints deliver                                  *)
(***************************************************************************)
MaxTime == 2
MaxReadings == 4

TmStamps == 1..MaxTime

BuoyReadings ==
    { [AirTemp_1 |-> RInt(10), AirTemp_2 |-> RInt(20),
       WindDir_1 |-> RInt(350), WindDir_2 |-> RInt(10),
       WindSpeed_1 |-> RInt(2), WindSpeed_2 |-> RInt(4)],
      [AirTemp_1 |-> RInt(80), AirTemp_2 |-> RInt(80),
       WindDir_1 |-> RInt(0), WindDir_2 |-> RInt(0),
       WindSpeed_1 |-> RInt(0), WindSpeed_2 |-> RInt(0)],
      [AirTemp_1 |-> NaN, AirTemp_2 |-> RInt(20),
       WindDir_1 |-> RInt(90), WindDir_2 |-> RInt(90),
       WindSpeed_1 |-> RInt(10), WindSpeed_2 |-> RInt(10)] }

UscgReadings ==
    { [ShortWaveIn_wm2 |-> RInt(500), ShortWaveOut_wm2 |-> RInt(100),
       BP_mbar |-> RInt(800), RH_percent |-> RInt(50), LongWaveInCorr_wm2 |-> RInt(300)],
      [ShortWaveIn_wm2 |-> RInt(0), ShortWaveOut_wm2 |-> RInt(0),
       BP_mbar |-> RInt(1000), RH_percent |-> RInt(120), LongWaveInCorr_wm2 |-> RInt(30)],
      [ShortWaveIn_wm2 |-> RInt(200), ShortWaveOut_wm2 |-> RInt(50),
       BP_mbar |-> RInt(850), RH_percent |-> NaN, LongWaveInCorr_wm2 |-> RInt(300)] }

InitHist ==
    /\ pc = "buoy"
    /\ historical = <<>>
    /\ nread = 0
    /\ seen = [buoy |-> {}, uscg |-> {}]
    /\ df = <<>>
    /\ prev = <<>>
    /\ df0 = <<>>
    /\ ret = "none"
    /\ err = "none"
    /\ NwsIdle
    /\ SvcIdle

\* for data_sample in buoy_json: one iteration             (aws.py:80-97)
HistBuoySample ==
    /\ pc = "buoy"
    /\ nread < MaxReadings
    /\ \E time \in TmStamps, data_sample \in BuoyReadings :
          /\ historical' = SetFeatures(historical, time, BuoyFeatures(data_sample))
          /\ seen' = [seen EXCEPT !.buoy = @ \cup {time}]
    /\ nread' = nread + 1
    /\ UNCHANGED <<pc, ret, df, prev, df0, err, nwsvars>>
    /\ UNCHANGED svcvars

\* buoy_json is exhausted
HistBuoyDone ==
    /\ pc = "buoy"
    /\ pc' = "uscg"
    /\ UNCHANGED <<ret, df, prev, df0, err, nwsvars, histvars>>
    /\ UNCHANGED svcvars

\* for data_sample in uscg_json: one iteration             (aws.py:100-119)
HistUscgSample ==
    /\ pc = "uscg"
    /\ nread < MaxReadings
    /\ \E time \in TmStamps, data_sample \in UscgReadings :
          /\ historical' = SetFeatures(historical, time, UscgFeatures(data_sample))
          /\ seen' = [seen EXCEPT !.uscg = @ \cup {time}]
    /\ nread' = nread + 1
    /\ UNCHANGED <<pc, ret, df, prev, df0, err, nwsvars>>
    /\ UNCHANGED svcvars

\* uscg_json is exhausted; df = pd.DataFrame(...)          (aws.py:122-125)
HistBuildFrame ==
    /\ pc = "uscg"
    /\ df' = HistFrame(historical)
    /\ prev' = df
    /\ pc' = "trim"
    /\ UNCHANGED <<ret, df0, err, nwsvars, histvars>>
    /\ UNCHANGED svcvars

\* Trim rows that have nan                                 (aws.py:128-130)
HistTrim ==
    /\ pc = "trim"
    /\ df' = DropRows(df, RowsWithNaN(df))
    /\ prev' = df
    /\ pc' = "sort"
    /\ UNCHANGED <<ret, df0, err, nwsvars, histvars>>
    /\ UNCHANGED svcvars

\* df.sort_values(...); remove_outliers(df) is entered      (aws.py:132-134)
HistSort ==
    /\ pc = "sort"
    /\ df' = SortByTime(df)
    /\ prev' = df
    /\ df0' = df'
    /\ ret' = "decompose"
    /\ pc' = "median1"
    /\ UNCHANGED <<err, nwsvars, histvars>>
    /\ UNCHANGED svcvars

\* Decompose wind speed and wind direction into vector     (aws.py:137-140)
HistDecompose ==
    /\ pc = "decompose"
    /\ df' = Decompose(df)
    /\ prev' = df
    /\ pc' = "trim2"
    /\ UNCHANGED <<ret, df0, err, nwsvars, histvars>>
    /\ UNCHANGED svcvars

\* Ensure dataframe leaves with no NaNs; return df         (aws.py:143-146)
HistTrimAgain ==
    /\ pc = "trim2"
    /\ df' = DropRows(df, RowsWithNaN(df))
    /\ prev' = df
    /\ pc' = "hist_returned"
    /\ UNCHANGED <<ret, df0, err, nwsvars, histvars>>
    /\ UNCHANGED svcvars

(***************************************************************************)
(* Inputs of remove_outliers: dense tables.  A column is given by a shape, *)
(* a sequence of levels; level j of a feature with bounds [lo, hi] is the  *)
(* value lo + j * (hi - lo) / 2, so levels -1 and 3 lie outside the        *)
(* bounds, 0 and 2 on them and 1 inside.  Short shapes are all sequences   *)
(* up to MaxShort; long shapes are a run of PadLen equal in-bounds levels  *)
(* with a free part of up to MaxEdge levels before or after it, long       *)
(* enough for a value to lie more than three standard deviations from its  *)
(* window mean.                                                            *)
(***************************************************************************)
MaxShort == 3
PadLen == 16
MaxEdge == 2

Levels == -1..3

SeqsUpTo(S, k) == UNION {[1..m -> S] : m \in 0..k}

Pad(j) == [i \in 1..PadLen |-> j]

ShortShapes == SeqsUpTo(Levels, MaxShort)

LongShapes ==
    {Pad(j) \o e : j \in 0..2, e \in SeqsUpTo(Levels, MaxEdge)}
        \cup {e \o Pad(j) : j \in 0..2, e \in SeqsUpTo(Levels, MaxEdge)}

LevelValue(f, j) ==
    LET lo == ATTR_BOUNDS[f][1]
        hi == ATTR_BOUNDS[f][2]
    IN  RAdd(lo, RMulInt(RDivInt(RSub(hi, lo), 2), j))

ShapeTable(shape) ==
    [i \in 1..Len(shape) |->
        [time |-> i, v |-> [f \in Features |-> LevelValue(f, shape[i])]]]

InitClean ==
    /\ \E shape \in ShortShapes \cup LongShapes : df = ShapeTable(shape)
    /\ prev = df
    /\ df0 = df
    /\ pc = "median1"
    /\ ret = "none"
    /\ err = "none"
    /\ NwsIdle
    /\ HistIdle
    /\ SvcIdle

(***************************************************************************)
(* remove_outliers(df), one action per stage                               *)
(***************************************************************************)
\* median_filtering(df)                                    (aws.py:179)
Median1 ==
    /\ pc = "median1"
    /\ df' = median_filtering(df)
    /\ prev' = df
    /\ pc' = "clip"
    /\ UNCHANGED <<ret, df0, err, nwsvars, histvars>>
    /\ UNCHANGED svcvars

\* for feature, (lo, hi) in ATTR_BOUNDS.items(): np.clip   (aws.py:182-184)
ClipBounds ==
    /\ pc = "clip"
    /\ df' = ClipStage(df)
    /\ prev' = df
    /\ pc' = "sigma"
    /\ UNCHANGED <<ret, df0, err, nwsvars, histvars>>
    /\ UNCHANGED svcvars

\* rolling 3-sigma repair                                  (aws.py:187-199)
\* On a frame without rows std[0] = 0 enlarges std to the index [0]; lo and
\* hi then carry that index and  lo < df[feature]  raises ValueError
\* ("Can only compare identically-labeled Series objects").
Sigma ==
    /\ pc = "sigma"
    /\ prev' = df
    /\ IF Len(df) = 0
       THEN /\ pc' = "error"
            /\ err' = "ValueError"
            /\ df' = df
       ELSE /\ pc' = "stuck"
            /\ err' = err
            /\ df' = SigmaStage(df)
    /\ UNCHANGED <<ret, df0, nwsvars, histvars>>
    /\ UNCHANGED svcvars

\* bound-stuck repair                                      (aws.py:201-207)
Stuck ==
    /\ pc = "stuck"
    /\ df' = StuckStage(df)
    /\ prev' = df
    /\ pc' = "median2"
    /\ UNCHANGED <<ret, df0, err, nwsvars, histvars>>
    /\ UNCHANGED svcvars

\* median_filtering(df)                                    (aws.py:209)
Median2 ==
    /\ pc = "median2"
    /\ df' = median_filtering(df)
    /\ prev' = df
    /\ pc' = IF ret = "none" THEN "cleaned" ELSE ret
    /\ UNCHANGED <<ret, df0, err, nwsvars, histvars>>
    /\ UNCHANGED svcvars

NextClean == Median1 \/ ClipBounds \/ Sigma \/ Stuck \/ Median2

SpecClean == InitClean /\ [][NextClean]_vars

NextHist ==
    \/ HistBuoySample \/ HistBuoyDone \/ HistUscgSample \/ HistBuildFrame
    \/ HistTrim \/ HistSort
    \/ Median1 \/ ClipBounds \/ Sigma \/ Stuck \/ Median2
    \/ HistDecompose \/ HistTrimAgain

SpecHist == InitHist /\ [][NextHist]_vars

(***************************************************************************)
(* Claims about get_model_historical_data (SpecHist)                       *)
(***************************************************************************)
Dense(row) == \A f \in Features : ~IsNaN(row.v[f])

RowSet(t) == {t[i] : i \in 1..Len(t)}

\* C3: the gap trim removes exactly the rows of the merged table with at
\* least one absent (NaN) feature: a timestamp only one source reported is
\* gone, every timestamp with all 7 features populated is kept with its
\* values unchanged, and no cell of the trimmed table is absent.
C3_TrimRemovesExactlyGaps ==
    pc = "sort" =>
        /\ \A row \in RowSet(prev) : Dense(row) <=> row \in RowSet(df)
        /\ RowSet(df) \subseteq RowSet(prev)
        /\ Len(df) = Cardinality(RowSet(df))
        /\ \A row \in RowSet(df) : Dense(row)
        /\ \A t \in (seen.buoy \cup seen.uscg) \ (seen.buoy \cap seen.uscg) :
              \A row \in RowSet(df) : row.time # t

\* C3 witness: the trim has run on a merged table that held a timestamp
\* only one source reported and a fully populated row; it removed the
\* first and kept the second.
C3_Witness ==
    /\ pc = "sort"
    /\ Len(df) >= 1
    /\ Len(prev) > Len(df)
    /\ \E t \in (seen.buoy \cup seen.uscg) \ (seen.buoy \cap seen.uscg) :
          \E row \in RowSet(prev) : row.time = t

\* C7: when the sources deliver no reading, or the gap trim removes every
\* row, get_model_historical_data raises no error and returns an empty
\* table: remove_outliers and the decomposition complete on zero rows.
C7_EmptyTableNoError ==
    (ret = "decompose" /\ df0 = <<>>) =>
        /\ pc # "error"
        /\ err = "none"
        /\ pc = "hist_returned" => df = <<>>

(***************************************************************************)
(* Claims about remove_outliers (SpecClean)                                *)
(***************************************************************************)
InBounds(f, x) == RLe(ATTR_BOUNDS[f][1], x) /\ RLe(x, ATTR_BOUNDS[f][2])

\* C1: for every dense input table of length >= 1, when remove_outliers
\* returns every value of every feature of ATTR_BOUNDS lies in that
\* feature's closed range [lo, hi]: no stage after the hard clip moves a
\* value back outside its bounds.
C1_CleanedWithinBounds ==
    pc = "cleaned" =>
        \A i \in 1..Len(df) : \A f \in DOMAIN ATTR_BOUNDS : InBounds(f, df[i].v[f])

\* C1 witness: remove_outliers has returned a table that came in with a
\* value above its upper bound and one below its lower bound, and stage 3
\* or 4 has replaced a value after the clip.
C1_Witness ==
    /\ pc = "cleaned"
    /\ \E i \in 1..Len(df0) : RLt(ATTR_BOUNDS["air temp"][2], df0[i].v["air temp"])
    /\ \E i \in 1..Len(df0) : RLt(df0[i].v["air temp"], ATTR_BOUNDS["air temp"][1])
    /\ \E i \in 1..Len(df) : df[i].v["air temp"] \notin
            {df0[j].v["air temp"] : j \in 1..Len(df0)}
                \cup {ATTR_BOUNDS["air temp"][1], ATTR_BOUNDS["air temp"][2]}

\* The centred window-100 rolling mean of col at position i, as the claims
\* state it: the plain average of the values at positions i-50 .. i+49.
RECURSIVE SumRat(_)
SumRat(s) == IF s = <<>> THEN RInt(0) ELSE RAdd(Head(s), SumRat(Tail(s)))

CentredMean100(col, i) ==
    LET lo == IF i - 50 < 1 THEN 1 ELSE i - 50
        hi == IF i + 49 > Len(col) THEN Len(col) ELSE i + 49
    IN  RDivInt(SumRat(SubSeq(col, lo, hi)), hi - lo + 1)

\* C8: stage 4 leaves every shortwave value unchanged; in every other
\* bounded feature a value equal to lo or hi after stage 3 is replaced by
\* the centred window-100 rolling mean at its position, taken over the
\* column as it stands after stage 3, and every other value is unchanged.
C8_StuckRepairFrame ==
    pc = "median2" =>
        \A f \in DOMAIN ATTR_BOUNDS : \A i \in 1..Len(df) :
            LET x == prev[i].v[f]
            IN  IF f = "shortwave" THEN df[i].v[f] = x
                ELSE IF x = ATTR_BOUNDS[f][1] \/ x = ATTR_BOUNDS[f][2]
                     THEN df[i].v[f] = CentredMean100(Column(prev, f), i)
                     ELSE df[i].v[f] = x

\* C8 witness: stage 4 has run on a table whose shortwave column holds a
\* run of two values at its lower bound and whose air temperature column
\* held a value at a bound that stage 4 changed.
C8_Witness ==
    /\ pc = "median2"
    /\ \E i \in 1..(Len(prev) - 1) :
          /\ prev[i].v["shortwave"] = ATTR_BOUNDS["shortwave"][1]
          /\ prev[i + 1].v["shortwave"] = ATTR_BOUNDS["shortwave"][1]
    /\ \E i \in 1..Len(prev) :
          /\ prev[i].v["air temp"] = ATTR_BOUNDS["air temp"][1]
          /\ df[i].v["air temp"] # prev[i].v["air temp"]

\* A single range test against the statistics of the original column:
\* keep x where mean - 3*std < x and x < mean + 3*std, else the mean.
CombinedSigmaColumn(col) ==
    LET st == SigmaStat(col)
    IN  Series([i \in 1..Len(col) |->
                   IF /\ GtMeanMinus3Std(col[i], st[i].mean, st[i].std)
                      /\ LtMeanPlus3Std(col[i], st[i].mean, st[i].std)
                   THEN col[i] ELSE st[i].mean],
               Len(col))

\* C9: the two sequential replacement passes of stage 3 (below-band, then
\* above-band on the column the first pass modified), both against the mean
\* and std computed once, give every column exactly what one combined range
\* test on the original values gives.
C9_TwoPassesEqualCombined ==
    pc = "stuck" =>
        \A f \in Columns(df) : Column(df, f) = CombinedSigmaColumn(Column(prev, f))

\* x lies in the closed band [mean - 3*std, mean + 3*std]
InClosedBand(x, mean, std) ==
    /\ ~IsNaN(x) /\ ~IsNaN(mean) /\ ~std.nan
    /\ IF std.rad[1] = 0 \/ std.unit[1] = 0 THEN x = mean
       ELSE LET r == RDiv(RSub(x, mean), std.unit)
            IN  r[1] * r[1] * std.rad[2] <= 9 * std.rad[1] * r[2] * r[2]

\* x lies outside the closed band
OutsideBand(x, mean, std) ==
    ~IsNaN(x) /\ ~IsNaN(mean) /\ ~std.nan /\ ~InClosedBand(x, mean, std)

\* C9 witness: stage 3 has run on a column in which the first pass replaced
\* a value below its band, a value above its band at another position was
\* left to the second pass, and a value sat on a band edge (std 0).
C9_Witness ==
    /\ pc = "stuck"
    /\ LET col == Column(prev, "air temp")
           st  == SigmaStat(col)
           rs  == RollingStat(col, LargeWindow)
       IN  /\ \E i \in 2..Len(col) :
                 /\ OutsideBand(col[i], rs[i].mean, rs[i].std)
                 /\ RLt(col[i], rs[i].mean)
                 /\ df[i].v["air temp"] = rs[i].mean
           /\ \E i \in 1..Len(col) :
                 /\ ~LtMeanPlus3Std(col[i], st[i].mean, st[i].std)
                 /\ RLt(st[i].mean, col[i])
                 /\ df[i].v["air temp"] = st[i].mean

\* C10: stage 3 changes a value only when it falls outside the closed band
\* [mean - 3*std, mean + 3*std] of its centred window-100 rolling
\* statistics; a value inside the band, at any index including the first,
\* is left unchanged.
C10_InsideBandUnchanged ==
    pc = "stuck" =>
        \A f \in Columns(df) :
            LET col == Column(prev, f)
                rs  == RollingStat(col, LargeWindow)
            IN  \A i \in 1..Len(col) :
                    InClosedBand(col[i], rs[i].mean, rs[i].std) => df[i].v[f] = col[i]

(***************************************************************************)
(* service.py: DataRetrievalService.  self.db is [none, rows, naive] and   *)
(* the csv file [none, rows], its rows text; a fetch is [ok, df], ok FALSE *)
(* when get_model_nws_data raised.  save() writes self.db to the file      *)
(* after every merge, and a new service reads the file back, so the file   *)
(* is the stored database.                                                 *)
(*                                                                         *)
(* naive: the time column of self.db is timezone-naive.  The times of a    *)
(* fetch are timezone-aware; pd.to_datetime gives an aware column from     *)
(* texts that carry an offset and datetime64[ns], naive, from a column     *)
(* with no row; a fetch with no row has an object column, which compares   *)
(* with anything.                                                          *)
(***************************************************************************)
\* A time as to_csv writes it: date and time of day, then the fraction
\* of a second when there is one.
FormatTime(t) ==
    [whole |-> <<t.day, t.hour, t.minute, t.second>>,
     frac  |-> IF t.microsecond = 0 THEN <<>> ELSE <<t.microsecond>>]

\* pd.to_datetime of one text of the time column
to_datetime(x) ==
    Instant(x.whole[1], x.whole[2], x.whole[3], x.whole[4],
            IF x.frac = <<>> THEN 0 ELSE x.frac[1])

\* A cell as to_csv writes it: the empty field for nan, else the number.
FormatCell(v) == IF IsNaN(v) THEN <<>> ELSE <<v>>

\* A field as read_csv reads it
ParseCell(c) == IF c = <<>> THEN NaN ELSE c[1]

\* self.db.to_csv(CSV_FILE, index=False)
to_csv(rows) ==
    [none |-> FALSE,
     rows |-> [i \in 1..Len(rows) |->
                  [time  |-> FormatTime(rows[i].time),
                   cells |-> [l \in Labels |-> FormatCell(rows[i].v[l])]]]]

\* DataRetrievalService.__init__: None without the file, else
\* pd.read_csv(CSV_FILE) with the time column through pd.to_datetime.
read_csv(file) ==
    IF file.none THEN NoDb
    ELSE [none  |-> FALSE,
          rows  |-> [i \in 1..Len(file.rows) |->
                        [time |-> to_datetime(file.rows[i].time),
                         v    |-> [l \in Labels |-> ParseCell(file.rows[i].cells[l])]]],
          naive |-> Len(file.rows) = 0]

\* The inner loop of get_model_nws_data over the samples of one label
\* (nws.py:112-121), from the dict st.d; a ValueError of
\* round_to_nearest_hour ends it.
RECURSIVE NwsLabelSamples(_, _, _)
NwsLabelSamples(st, idx, samples) ==
    IF ~st.ok \/ samples = <<>> THEN st
    ELSE LET sample == Head(samples)
             pi     == parse_interval(sample.validTime)
             r      == round_to_nearest_hour(pi[1])
         IN  IF r.ok
             THEN NwsLabelSamples(
                      [ok |-> TRUE, d |-> Expand(st.d, r.date, idx, sample.value, 0, pi[2])],
                      idx, Tail(samples))
             ELSE [ok |-> FALSE, d |-> st.d]

\* The outer loop over the labels (nws.py:111)
RECURSIVE NwsAllLabels(_, _, _)
NwsAllLabels(st, idx, data) ==
    IF idx > Len(labels) THEN st
    ELSE NwsAllLabels(NwsLabelSamples(st, idx, data[idx]), idx + 1, data)

\* get_model_nws_data() on the response data, data[k] the samples of
\* label k in the order the response lists them.
get_model_nws_data(data) ==
    LET st == NwsAllLabels([ok |-> TRUE, d |-> <<>>], 1, data)
    IN  [ok |-> st.ok, df |-> IF st.ok THEN NwsFrame(st.d) ELSE <<>>]

\* The responses offered to retrieve: up to MaxPerLabel samples for each of
\* the first two labels, all of one fetch carrying the same value.
MaxRetrieves == 2
MaxPerLabel == 1

ServiceIntervals ==
    { [date |-> Instant(1, 2, 0, 0, 0), sep |-> "", duration |-> <<>>],
      [date |-> Instant(1, 2, 0, 0, 0), sep |-> "/", duration |-> DurationText(1, -1, -1)],
      [date |-> Instant(1, 2, 0, 0, 0), sep |-> "/", duration |-> DurationText(2, -1, -1)],
      [date |-> Instant(1, 3, 0, 0, 0), sep |-> "/", duration |-> DurationText(1, -1, -1)],
      [date |-> Instant(1, 23, 30, 0, 0), sep |-> "/", duration |-> DurationText(1, -1, -1)] }

ServiceSamples(x) == { [validTime |-> iv, value |-> x] : iv \in ServiceIntervals }

ServiceData ==
    UNION { { [k \in 1..Len(labels) |-> IF k = 1 THEN a ELSE IF k = 2 THEN b ELSE <<>>] :
                a \in SeqsUpTo(ServiceSamples(x), MaxPerLabel),
                b \in SeqsUpTo(ServiceSamples(x), MaxPerLabel) } :
            x \in SampleValues }

\* The files a start can find: none, or what an earlier retrieve saved.
StoredFiles ==
    {NoFile} \cup
        { to_csv(get_model_nws_data(data).df) :
            data \in {x \in ServiceData : get_model_nws_data(x).ok} }

\* DataRetrievalService()                                 (service.py:26-32)
InitService ==
    /\ pc = "service"
    /\ csv_file \in StoredFiles
    /\ db = read_csv(csv_file)
    /\ old_db = db
    /\ nws_data = NotFetched
    /\ ncalls = 0
    /\ df = <<>>
    /\ prev = <<>>
    /\ df0 = <<>>
    /\ ret = "none"
    /\ err = "none"
    /\ NwsIdle
    /\ HistIdle

\* self.db[self.db['time'] < earliest_date]
RowsBefore(rows, earliest_date) ==
    LET Earlier(r) == InstantLt(r.time, earliest_date) IN SelectSeq(rows, Earlier)

\* retrieve()                                              (service.py:40-53)
\* err is how the call ended: "none", the ValueError of the fetch, the
\* KeyError of nws_data['time'][0] on a table with no row, or the TypeError
\* of comparing a naive time column with the aware earliest_date.
Retrieve ==
    /\ pc = "service"
    /\ ncalls < MaxRetrieves
    /\ \E data \in ServiceData :
          LET got == get_model_nws_data(data)
          IN  /\ ncalls' = ncalls + 1
              /\ old_db' = db
              /\ nws_data' = got
              /\ IF ~got.ok
                 THEN /\ err' = "ValueError"
                      /\ UNCHANGED <<db, csv_file>>
                 ELSE IF db.none
                 THEN /\ db' = [none |-> FALSE, rows |-> got.df, naive |-> FALSE]
                      /\ csv_file' = to_csv(db'.rows)
                      /\ err' = "none"
                 ELSE IF Len(got.df) = 0
                 THEN /\ err' = "KeyError"
                      /\ UNCHANGED <<db, csv_file>>
                 ELSE IF db.naive
                 THEN /\ err' = "TypeError"
                      /\ UNCHANGED <<db, csv_file>>
                 ELSE /\ db' = [none  |-> FALSE,
                                rows  |-> RowsBefore(db.rows, got.df[1].time) \o got.df,
                                naive |-> FALSE]
                      /\ csv_file' = to_csv(db'.rows)
                      /\ err' = "none"
    /\ UNCHANGED <<pc, ret, df, prev, df0, nwsvars, histvars>>

\* The process ends and a new one constructs the service from the file
\* (service.py:26-32, 56-57).
Restart ==
    /\ pc = "service"
    /\ db' = read_csv(csv_file)
    /\ UNCHANGED <<csv_file, nws_data, old_db, ncalls>>
    /\ UNCHANGED <<pc, ret, df, prev, df0, err, nwsvars, histvars>>

NextService == Retrieve \/ Restart

SpecService == InitService /\ [][NextService]_vars

(***************************************************************************)
(* Claims about the stored database (SpecService)                          *)
(***************************************************************************)
TimesDistinct(rows) ==
    \A i, j \in 1..Len(rows) : rows[i].time = rows[j].time => i = j

EarlierThanAll(r, batch) ==
    \A k \in 1..Len(batch) : InstantLt(r.time, batch[k].time)

\* rows is: rows of old, each earlier than every timestamp of batch,
\* followed by every row of batch.
KeepsEarlierThenBatch(rows, old, batch) ==
    LET nkept == Len(rows) - Len(batch)
    IN  /\ nkept >= 0
        /\ SubSeq(rows, nkept + 1, Len(rows)) = batch
        /\ \A i \in 1..nkept :
               /\ \E j \in 1..Len(old) : old[j] = rows[i]
               /\ EarlierThanAll(rows[i], batch)

\* C11: after a retrieve() that stored its fetch, the stored database holds
\* every row of the fetched batch, keeps from the previous database only
\* rows strictly earlier than every timestamp of the batch, and so never
\* holds two rows with the same timestamp.
C11_StoredDatabase ==
    /\ (ncalls > 0 /\ err = "none") =>
           KeepsEarlierThenBatch(read_csv(csv_file).rows, old_db.rows, nws_data.df)
    /\ TimesDistinct(read_csv(csv_file).rows)

\* C11 where the first row of the batch carries its earliest timestamp and
\* the previous database held no timestamp twice.
C11_StoredWhenFirstRowEarliest ==
    (/\ ncalls > 0
     /\ err = "none"
     /\ TimesDistinct(old_db.rows)
     /\ \A k \in 2..Len(nws_data.df) :
            InstantLt(nws_data.df[1].time, nws_data.df[k].time))
        => /\ KeepsEarlierThenBatch(read_csv(csv_file).rows, old_db.rows, nws_data.df)
           /\ TimesDistinct(read_csv(csv_file).rows)

====
